---- MODULE Spec2Model ----
(***************************************************************************)
(* A model of modernize_attrs.ModernizeAttrsCodemod: the libcst visitor    *)
(* that rewrites attr.s / attr.ib classes to attrs.define / field.         *)
(*                                                                         *)
(* The syntax tree is abstracted to records:                               *)
(*   Val   [tag, id, args]   an expression: "none" (Python None, i.e. no   *)
(*         node), "lit" (a literal), "name" (a Name or a dotted Attribute  *)
(*         chain, id = its components), "tuple", or "call" (id = the       *)
(*         dotted callee, args = its Arg sequence)                         *)
(*   Arg   [keyword, value]  keyword = "" for a positional argument        *)
(*   Stmt  [kind, name, targets, annotation, value, decs, body]            *)
(*         kind in Assign, AnnAssign, FunctionDef, ClassDef; a class name  *)
(*         is the path of the class (its index at each level), so that     *)
(*         every class of a module has a name of its own                   *)
(*   Module [imports, body]  imports = set of [module, obj] (obj = "" for  *)
(*         "import module"), body = the top-level classes                  *)
(* The depth-first walk of libcst is unfolded into one action per visitor  *)
(* callback of the codemod; the walker's position is a stack of frames.    *)
(***************************************************************************)
EXTENDS Integers, Sequences, FiniteSets, TLC

VARIABLES
    orig,       \* the module handed to the first transform_module call
    input,      \* the module walked by the current transform_module call
    pass,       \* 1: first application, 2: application to the first output
    phase,      \* "walk", "imports" (leave_Module has run), "done"
    mi,         \* index of the next top-level statement of input.body
    stack,      \* frames of the classes being walked, innermost last
    outBody,    \* updated top-level statements so far
    scratch,    \* context.scratch: imports scheduled to add / remove
    output,     \* the module returned by the current call (phase = "done")
    first,      \* the module returned by the first call
    current_class_has_untyped_attr,
    current_class_name,
    in_annotated_assign,
    did_transform,
    decorated_fields,   \* self._decorated_fields
    warnings,   \* class names of the printed "Skipping class" warnings
    built       \* arguments and result of the last _build_field_value call

vars == <<orig, input, pass, phase, mi, stack, outBody, scratch, output, first,
          current_class_has_untyped_attr, current_class_name,
          in_annotated_assign, did_transform, decorated_fields, warnings, built>>

walker == <<current_class_has_untyped_attr, current_class_name,
            in_annotated_assign, did_transform, decorated_fields>>

----------------------------------------------------------------------------
(* Syntax constructors *)

NoneVal == [tag |-> "none", id |-> <<>>, args |-> <<>>]
Lit(s) == [tag |-> "lit", id |-> <<s>>, args |-> <<>>]
Name(s) == [tag |-> "name", id |-> <<s>>, args |-> <<>>]
Dotted(ids) == [tag |-> "name", id |-> ids, args |-> <<>>]
TupleOf(ids) == [tag |-> "tuple", id |-> ids, args |-> <<>>]
Call(func, args) == [tag |-> "call", id |-> func, args |-> args]
Kw(k, v) == [keyword |-> k, value |-> v]
Pos(v) == [keyword |-> "", value |-> v]

Assign(targets, value) ==
    [kind |-> "Assign", name |-> <<>>, targets |-> targets,
     annotation |-> NoneVal, value |-> value, decs |-> <<>>, body |-> <<>>]
AnnAssign(target, annotation, value) ==
    [kind |-> "AnnAssign", name |-> <<>>, targets |-> <<target>>,
     annotation |-> annotation, value |-> value, decs |-> <<>>, body |-> <<>>]
FunctionDef(decs) ==
    [kind |-> "FunctionDef", name |-> <<>>, targets |-> <<>>,
     annotation |-> NoneVal, value |-> NoneVal, decs |-> decs, body |-> <<>>]
ClassDef(name, decs, body) ==
    [kind |-> "ClassDef", name |-> name, targets |-> <<>>,
     annotation |-> NoneVal, value |-> NoneVal, decs |-> decs, body |-> body]

Import(m) == [module |-> m, obj |-> ""]
ImportFrom(m, o) == [module |-> m, obj |-> o]
Module(imports, body) == [imports |-> imports, body |-> body]

IsName(v) == v.tag = "name" /\ Len(v.id) = 1
IsAttribute(v) == v.tag = "name" /\ Len(v.id) > 1
IsCall(v) == v.tag = "call"
Last(s) == s[Len(s)]
Range(s) == {s[i] : i \in 1..Len(s)}

----------------------------------------------------------------------------
(* Symbol resolution: libcst's QualifiedNameProvider *)

\* the name an import statement binds in the module scope
BoundName(imp) == IF imp.obj = "" THEN imp.module ELSE imp.obj

\* the qualified names a dotted name can denote, given the visible imports
QualifiedNames(id, imports) ==
    IF id = <<>> THEN {}
    ELSE {IF imp.obj = "" THEN id ELSE <<imp.module, imp.obj>> \o Tail(id) :
              imp \in {i \in imports : BoundName(i) = Head(id)}}

\* the dotted name QualifiedNameProvider resolves for a node: a call's callee
FullName(v) == IF v.tag \in {"name", "call"} THEN v.id ELSE <<>>

AttrsDecoratorNames == {<<"attr", "s">>, <<"attrs", "s">>, <<"attr", "attrs">>}
IbCallNames == {<<"attr", "ib">>, <<"attrs", "ib">>,
                <<"attr", "attrib">>, <<"attrs", "attrib">>}

IsAttrsDecorator(dec, imports) ==
    QualifiedNames(FullName(dec), imports) \cap AttrsDecoratorNames # {}

IsIbCall(node, imports) ==
    QualifiedNames(node.id, imports) \cap IbCallNames # {}

----------------------------------------------------------------------------
(* Field Rule Engine *)

\* _extract_attr_args: the value of the (last) type= keyword, and the other args
RECURSIVE TypeArgFrom(_, _)
TypeArgFrom(args, acc) ==
    IF args = <<>> THEN acc
    ELSE TypeArgFrom(Tail(args),
                     IF Head(args).keyword = "type" THEN Head(args).value ELSE acc)

ExtractAttrArgs(node) ==
    [type_arg |-> TypeArgFrom(node.args, NoneVal),
     remaining_args |-> SelectSeq(node.args, LAMBDA a : a.keyword # "type")]

\* the test of lines 97-103: a call whose callee is X.Factory or Factory
IsFactoryCall(v) ==
    /\ IsCall(v)
    /\ \/ (Len(v.id) > 1 /\ Last(v.id) = "Factory")
       \/ (Len(v.id) = 1 /\ v.id[1] = "Factory")

EmptyParse ==
    [factory_func |-> <<>>, factory_value |-> NoneVal,
     simple_default |-> NoneVal, default_arg |-> NoneVal, other_args |-> <<>>]

\* one iteration of the loop of _parse_field_args
ParseStep(acc, arg) ==
    IF arg.keyword = "type" THEN acc
    ELSE IF arg.keyword = "default" THEN
        IF IsFactoryCall(arg.value)
        THEN [acc EXCEPT !.default_arg = arg.value,
                         !.factory_func = arg.value.id,
                         !.factory_value =
                             IF arg.value.args # <<>>
                             THEN arg.value.args[1].value
                             ELSE acc.factory_value]
        ELSE [acc EXCEPT !.default_arg = arg.value,
                         !.simple_default = arg.value]
    ELSE [acc EXCEPT !.other_args = Append(acc.other_args, arg)]

RECURSIVE ParseFrom(_, _)
ParseFrom(args, acc) ==
    IF args = <<>> THEN acc ELSE ParseFrom(Tail(args), ParseStep(acc, Head(args)))

ParseFieldArgs(args) == ParseFrom(args, EmptyParse)

\* Python truthiness of the values _build_field_value tests
Truthy(v) == v.tag # "none"

\* the argument list of the emitted field(...) call (lines 124-133, 142-151)
FieldArgs(p) ==
    (IF p.factory_func # <<>> /\ Truthy(p.factory_value)
        THEN <<Kw("factory", p.factory_value)>> ELSE <<>>)
    \o (IF Truthy(p.default_arg) /\ p.factory_func = <<>>
        THEN <<Kw("default", p.default_arg)>> ELSE <<>>)
    \o p.other_args

\* the initializer chosen by the if-ladder of lines 119-135 (137-152); NoneVal
\* when no branch is taken
FieldValue(p, force_field) ==
    IF Truthy(p.simple_default) /\ p.other_args = <<>> /\ p.factory_func = <<>>
       /\ ~force_field
    THEN p.simple_default
    ELSE IF p.factory_func # <<>> /\ Truthy(p.factory_value)
            /\ p.other_args = <<>> /\ ~force_field
    THEN Call(<<"Factory">>, <<Pos(p.factory_value)>>)
    ELSE IF (p.factory_func # <<>> /\ Truthy(p.factory_value))
            \/ p.other_args # <<>> \/ force_field
    THEN Call(<<"field">>, FieldArgs(p))
    ELSE NoneVal

HasInitializer(p, force_field) ==
    \/ Truthy(p.simple_default) /\ p.other_args = <<>> /\ p.factory_func = <<>>
       /\ ~force_field
    \/ p.factory_func # <<>> /\ Truthy(p.factory_value)
    \/ p.other_args # <<>>
    \/ force_field

\* _build_field_value: an AnnAssign when there is an annotation, else an Assign
\* (whose fall-through assigns the target to itself, line 153)
BuildFieldValue(target, annotation, p, force_field) ==
    IF Truthy(annotation)
    THEN AnnAssign(target, annotation, FieldValue(p, force_field))
    ELSE Assign(<<target>>,
                IF HasInitializer(p, force_field)
                THEN FieldValue(p, force_field) ELSE target)

\* field_name in self._decorated_fields (lines 172-173, 272-273)
ForceField(target, fields) == IsName(target) /\ target.id[1] \in fields

----------------------------------------------------------------------------
(* Class Safety Classifier *)

\* FieldDecoratorCollector.visit_FunctionDef on one function
CollectorDecorators == {"validator", "default"}

FunctionFields(fn) ==
    {fn.decs[i].id[1] : i \in {j \in 1..Len(fn.decs) :
        /\ IsAttribute(fn.decs[j])
        /\ Last(fn.decs[j].id) \in CollectorDecorators
        /\ Len(fn.decs[j].id) = 2}}

\* node.visit(collector): every FunctionDef below the class, nested classes
\* included
RECURSIVE CollectFields(_)
CollectFields(node) ==
    IF node.kind = "FunctionDef" THEN FunctionFields(node)
    ELSE IF node.kind = "ClassDef"
    THEN UNION {CollectFields(node.body[i]) : i \in 1..Len(node.body)}
    ELSE {}

\* the test of visit_Call lines 192-195
HasType(node) == \E i \in 1..Len(node.args) : node.args[i].keyword = "type"

----------------------------------------------------------------------------
(* Decorator Rewriter: the body of leave_Decorator for a legacy marker *)

\* a variant that drops auto_attribs whatever its value
KeepUnlessAutoAttribs(arg) == arg.keyword # "auto_attribs"

\* the filter of lines 209-214
KeepDecoratorArg(arg) ==
    ~(arg.keyword = "auto_attribs" /\ IsName(arg.value) /\ arg.value.id[1] = "True")

RewriteDecorator(dec) ==
    IF IsCall(dec)
    THEN LET filtered_args == SelectSeq(dec.args, KeepDecoratorArg)
         IN  IF filtered_args # <<>> THEN Call(<<"define">>, filtered_args)
             ELSE Name("define")
    ELSE Name("define")

----------------------------------------------------------------------------
(* What the import visitors read off the tree *)

RECURSIVE ValCalls(_)
\* the callees of every call of an expression
ValCalls(v) ==
    IF IsCall(v)
    THEN {v.id} \cup UNION {ValCalls(v.args[i].value) : i \in 1..Len(v.args)}
    ELSE {}

RECURSIVE ValNames(_)
\* the names an expression loads (the first component of each dotted name)
ValNames(v) ==
    IF v.tag = "name" THEN {Head(v.id)}
    ELSE IF IsCall(v)
    THEN {Head(v.id)} \cup UNION {ValNames(v.args[i].value) : i \in 1..Len(v.args)}
    ELSE {}

RECURSIVE StmtCalls(_)
StmtCalls(st) ==
    ValCalls(st.value) \cup ValCalls(st.annotation)
    \cup UNION {ValCalls(st.decs[i]) : i \in 1..Len(st.decs)}
    \cup UNION {StmtCalls(st.body[i]) : i \in 1..Len(st.body)}

RECURSIVE StmtNames(_)
StmtNames(st) ==
    ValNames(st.value) \cup ValNames(st.annotation)
    \cup UNION {ValNames(st.decs[i]) : i \in 1..Len(st.decs)}
    \cup UNION {StmtNames(st.body[i]) : i \in 1..Len(st.body)}

BodyCalls(body) == UNION {StmtCalls(body[i]) : i \in 1..Len(body)}
BodyNames(body) == UNION {StmtNames(body[i]) : i \in 1..Len(body)}

\* '"<name>(" in code_str': some call is spelled with <name> as last component
CodeContainsCall(body, name) == \E c \in BodyCalls(body) : Last(c) = name

\* a variant that leaves the imports of the target namespace alone
ScheduledLegacyRemovals ==
    {Import("attr"), Import("attrs"),
     ImportFrom("attr", "attrs"), ImportFrom("attr", "attrib"),
     ImportFrom("attr", "ib"), ImportFrom("attr", "Factory")}

\* the removals leave_Module schedules (lines 233-241)
ScheduledRemovals ==
    {Import("attr"), Import("attrs"),
     ImportFrom("attr", "attrs"), ImportFrom("attr", "attrib"),
     ImportFrom("attr", "ib"), ImportFrom("attr", "Factory"),
     ImportFrom("attrs", "define"), ImportFrom("attrs", "Factory"),
     ImportFrom("attrs", "field")}

\* a variant that never schedules field
ScheduledAdditionsWithoutField(imports, body) ==
    (IF CodeContainsCall(body, "Factory")
        /\ ImportFrom("attr", "Factory") \notin imports
     THEN {ImportFrom("attrs", "Factory")} ELSE {})
    \cup {ImportFrom("attrs", "define")}

\* the additions leave_Module schedules (lines 243-255)
ScheduledAdditions(imports, body) ==
    (IF CodeContainsCall(body, "Factory")
        /\ ImportFrom("attr", "Factory") \notin imports
     THEN {ImportFrom("attrs", "Factory")} ELSE {})
    \cup {ImportFrom("attrs", "define")}
    \cup (IF CodeContainsCall(body, "field")
          THEN {ImportFrom("attrs", "field")} ELSE {})

\* a variant that removes the scheduled legacy imports whether used or not
ReconcileImportsRegardless(imports, body, sc) ==
    {imp \in imports \cup sc.adds :
        ~(imp \in sc.removes
          /\ (imp.module = "attr" \/ BoundName(imp) \notin BodyNames(body)))}

\* AddImportsVisitor, then RemoveImportsVisitor: a scheduled import goes when
\* the name it binds is not referenced in the tree
ReconcileImports(imports, body, sc) ==
    {imp \in imports \cup sc.adds :
        ~(imp \in sc.removes /\ BoundName(imp) \notin BodyNames(body))}

----------------------------------------------------------------------------
(* The walk *)

NoNode == [kind |-> "none", name |-> <<>>, targets |-> <<>>,
           annotation |-> NoneVal, value |-> NoneVal, decs |-> <<>>, body |-> <<>>]

NoBuild == [valid |-> FALSE, target |-> NoneVal, annotation |-> NoneVal,
            args |-> <<>>, force_field |-> FALSE, result |-> NoNode]

Top == stack[Len(stack)]

\* a frame: the class being walked (original node), the next child (its
\* decorators first, then its body), the position inside that child, the
\* next decorator of a function child (and that function's updated decorators),
\* and the updated children so far
Frame(node) ==
    [node |-> node, phase |-> IF node.decs = <<>> THEN "body" ELSE "decs",
     i |-> 1, sub |-> "start", k |-> 1, fdecs |-> <<>>,
     decs |-> <<>>, body |-> <<>>]

InBody == stack # <<>> /\ Top.phase = "body" /\ Top.i <= Len(Top.node.body)
InDecs == stack # <<>> /\ Top.phase = "decs"

\* the statement the walk is at: a top-level one, or a child of the top frame
Here ==
    IF stack = <<>>
    THEN IF mi <= Len(input.body) THEN input.body[mi] ELSE NoNode
    ELSE IF InBody THEN Top.node.body[Top.i] ELSE NoNode

\* the top frame with the updated statement r in place of the current child
WithStmt(r) ==
    [stack EXCEPT ![Len(stack)] =
        [@ EXCEPT !.body = Append(@, r), !.i = @ + 1,
                  !.sub = "start", !.k = 1, !.fdecs = <<>>]]

\* the top frame with the updated class decorator d
WithDecorator(d) ==
    [stack EXCEPT ![Len(stack)] =
        IF Top.i = Len(Top.node.decs)
        THEN [@ EXCEPT !.decs = Append(@, d), !.phase = "body",
                       !.i = 1, !.sub = "start"]
        ELSE [@ EXCEPT !.decs = Append(@, d), !.i = @ + 1,
                       !.sub = "start"]]

\* an untyped attr.ib call anywhere in an expression: what the visit_Call
\* calls on the expression's Call nodes find (lines 187-196)
RECURSIVE UntypedIbIn(_, _)
UntypedIbIn(v, imports) ==
    /\ IsCall(v)
    /\ \/ IsIbCall(v, imports) /\ ~HasType(v)
       \/ \E i \in 1..Len(v.args) : UntypedIbIn(v.args[i].value, imports)

\* visit_ClassDef, on a top-level or a nested class
VisitClassDef ==
    /\ phase = "walk"
    /\ Here.kind = "ClassDef"
    /\ current_class_has_untyped_attr' = FALSE
    /\ current_class_name' = Here.name
    /\ decorated_fields' = CollectFields(Here)
    /\ stack' = Append(stack, Frame(Here))
    /\ UNCHANGED <<orig, input, pass, phase, mi, outBody, scratch, output, first,
                   in_annotated_assign, did_transform, warnings, built>>

\* visit_AnnAssign
VisitAnnAssign ==
    /\ phase = "walk"
    /\ Here.kind = "AnnAssign" /\ Top.sub = "start"
    /\ in_annotated_assign' = TRUE
    /\ stack' = [stack EXCEPT ![Len(stack)].sub = "value"]
    /\ UNCHANGED <<orig, input, pass, phase, mi, outBody, scratch, output, first,
                   current_class_has_untyped_attr, current_class_name,
                   did_transform, decorated_fields, warnings, built>>

\* the expression whose Call nodes are visited next, NoneVal when there is none
CallHere ==
    IF InDecs /\ Top.sub = "start" THEN Top.node.decs[Top.i]
    ELSE IF Here.kind = "Assign" /\ Top.sub = "start" THEN Here.value
    ELSE IF Here.kind = "AnnAssign" /\ Top.sub = "value" THEN Here.value
    ELSE IF Here.kind = "FunctionDef" /\ Top.sub = "start" THEN Here.decs[Top.k]
    ELSE NoneVal

\* visit_Call (inside a ClassDef) on the calls of the expression
VisitCall ==
    /\ phase = "walk"
    /\ stack # <<>>
    /\ IsCall(CallHere)
    /\ current_class_has_untyped_attr' =
         IF UntypedIbIn(CallHere, input.imports) /\ ~in_annotated_assign
         THEN TRUE ELSE current_class_has_untyped_attr
    /\ stack' = [stack EXCEPT ![Len(stack)].sub = "leave"]
    /\ UNCHANGED <<orig, input, pass, phase, mi, outBody, scratch, output, first,
                   current_class_name, in_annotated_assign, did_transform,
                   decorated_fields, warnings, built>>

\* the guard of lines 162-167 and 262-267 on the value of the statement
IsLegacyField(st, imports) ==
    Truthy(st.value) /\ IsCall(st.value) /\ IsIbCall(st.value, imports)

\* the children of the statement have been visited
ValueVisited(st, first_sub) ==
    IF IsCall(st.value) THEN Top.sub = "leave" ELSE Top.sub = first_sub

\* a variant that lets the type= argument win over the annotation
AnnAssignAnnotationFromType(st) ==
    IF HasType(st.value) THEN TypeArgFrom(st.value.args, NoneVal) ELSE st.annotation

\* the annotation leave_AnnAssign hands to _build_field_value (line 176)
AnnAssignAnnotation(st) == st.annotation

\* leave_AnnAssign
LeaveAnnAssign ==
    /\ phase = "walk"
    /\ Here.kind = "AnnAssign" /\ ValueVisited(Here, "value")
    /\ in_annotated_assign' = FALSE
    /\ IF current_class_has_untyped_attr \/ ~IsLegacyField(Here, input.imports)
       THEN /\ stack' = WithStmt(Here)
            /\ UNCHANGED <<did_transform, built>>
       ELSE LET p == ParseFieldArgs(Here.value.args)
                force_field == ForceField(Here.targets[1], decorated_fields)
                r == BuildFieldValue(Here.targets[1], AnnAssignAnnotation(Here),
                                     p, force_field)
            IN  /\ did_transform' = TRUE
                /\ stack' = WithStmt(r)
                /\ built' = [valid |-> TRUE, target |-> Here.targets[1],
                             annotation |-> AnnAssignAnnotation(Here),
                             args |-> Here.value.args,
                             force_field |-> force_field, result |-> r]
    /\ UNCHANGED <<orig, input, pass, phase, mi, outBody, scratch, output, first,
                   current_class_has_untyped_attr, current_class_name,
                   decorated_fields, warnings>>

\* leave_Assign (inside a ClassDef)
LeaveAssign ==
    /\ phase = "walk"
    /\ Here.kind = "Assign" /\ ValueVisited(Here, "start")
    /\ IF current_class_has_untyped_attr \/ ~IsLegacyField(Here, input.imports)
       THEN /\ stack' = WithStmt(Here)
            /\ UNCHANGED <<did_transform, built>>
       ELSE LET x == ExtractAttrArgs(Here.value)
                target == Here.targets[1]
                force_field == ForceField(target, decorated_fields)
                p == ParseFieldArgs(x.remaining_args)
                r == BuildFieldValue(target, x.type_arg, p, force_field)
            IN  /\ did_transform' = TRUE
                /\ stack' = WithStmt(r)
                /\ built' = [valid |-> TRUE, target |-> target,
                             annotation |-> x.type_arg,
                             args |-> x.remaining_args,
                             force_field |-> force_field, result |-> r]
    /\ UNCHANGED <<orig, input, pass, phase, mi, outBody, scratch, output, first,
                   current_class_has_untyped_attr, current_class_name,
                   in_annotated_assign, decorated_fields, warnings>>

\* the decorator leave_Decorator returns for dec
LeftDecorator(dec, untyped, imports) ==
    IF untyped THEN dec
    ELSE IF IsAttrsDecorator(dec, imports) THEN RewriteDecorator(dec)
    ELSE dec

\* leave_Decorator (inside a ClassDef), on a decorator of the class or of one
\* of its functions
LeaveDecorator ==
    /\ phase = "walk"
    /\ stack # <<>>
    /\ \/ InDecs /\ (IF IsCall(Top.node.decs[Top.i])
                     THEN Top.sub = "leave" ELSE Top.sub = "start")
       \/ Here.kind = "FunctionDef"
            /\ (IF IsCall(Here.decs[Top.k]) THEN Top.sub = "leave" ELSE Top.sub = "start")
    /\ LET dec == IF InDecs THEN Top.node.decs[Top.i] ELSE Here.decs[Top.k]
           d == LeftDecorator(dec, current_class_has_untyped_attr, input.imports)
       IN  /\ did_transform' =
                IF ~current_class_has_untyped_attr /\ IsAttrsDecorator(dec, input.imports)
                THEN TRUE ELSE did_transform
           /\ stack' =
                IF InDecs THEN WithDecorator(d)
                ELSE IF Top.k = Len(Here.decs)
                THEN WithStmt([Here EXCEPT !.decs = Append(Top.fdecs, d)])
                ELSE [stack EXCEPT ![Len(stack)] =
                        [@ EXCEPT !.k = @ + 1, !.sub = "start",
                                  !.fdecs = Append(@, d)]]
    /\ UNCHANGED <<orig, input, pass, phase, mi, outBody, scratch, output, first,
                   current_class_has_untyped_attr, current_class_name,
                   in_annotated_assign, decorated_fields, warnings, built>>

\* leave_ClassDef: the original node and a warning when the flag is set,
\* else the updated node; the result goes to the parent
LeaveClassDef ==
    /\ phase = "walk"
    /\ stack # <<>>
    /\ Top.phase = "body" /\ Top.i > Len(Top.node.body)
    /\ LET r == IF current_class_has_untyped_attr THEN Top.node
                ELSE [Top.node EXCEPT !.decs = Top.decs, !.body = Top.body]
           rest == SubSeq(stack, 1, Len(stack) - 1)
       IN  /\ IF rest = <<>>
              THEN /\ outBody' = Append(outBody, r)
                   /\ mi' = mi + 1
                   /\ stack' = rest
              ELSE /\ stack' = [rest EXCEPT ![Len(rest)] =
                                  [@ EXCEPT !.body = Append(@, r),
                                            !.i = @ + 1, !.sub = "start"]]
                   /\ UNCHANGED <<outBody, mi>>
    /\ IF current_class_has_untyped_attr
       THEN /\ warnings' = Append(warnings, current_class_name)
            /\ did_transform' = FALSE
       ELSE UNCHANGED <<warnings, did_transform>>
    /\ UNCHANGED <<orig, input, pass, phase, scratch, output, first,
                   current_class_has_untyped_attr, current_class_name,
                   in_annotated_assign, decorated_fields, built>>

NoScratch == [adds |-> {}, removes |-> {}]

\* leave_Module: schedule the import removals and additions
LeaveModule ==
    /\ phase = "walk"
    /\ stack = <<>> /\ mi > Len(input.body)
    /\ scratch' = [adds |-> ScheduledAdditions(input.imports, outBody),
                   removes |-> ScheduledRemovals]
    /\ phase' = "imports"
    /\ UNCHANGED <<orig, input, pass, mi, stack, outBody, output, first,
                   walker, warnings, built>>

\* the end of CodemodCommand.transform_module: the scheduled AddImportsVisitor
\* and RemoveImportsVisitor run on the updated tree, which is returned
RunImportVisitors ==
    /\ phase = "imports"
    /\ output' = Module(ReconcileImports(input.imports, outBody, scratch), outBody)
    /\ first' = IF pass = 1 THEN output' ELSE first
    /\ phase' = "done"
    /\ UNCHANGED <<orig, input, pass, mi, stack, outBody, scratch,
                   walker, warnings, built>>

\* a second application, as the tests' check fixture applies the first: a new
\* command (the state of __init__) transforms the module the first returned
TransformAgain ==
    /\ phase = "done" /\ pass = 1
    /\ pass' = 2
    /\ input' = output
    /\ phase' = "walk"
    /\ mi' = 1
    /\ stack' = <<>>
    /\ outBody' = <<>>
    /\ scratch' = NoScratch
    /\ current_class_has_untyped_attr' = FALSE
    /\ current_class_name' = <<>>
    /\ in_annotated_assign' = FALSE
    /\ did_transform' = FALSE
    /\ decorated_fields' = {}
    /\ warnings' = <<>>
    /\ built' = NoBuild
    /\ UNCHANGED <<orig, output, first>>

----------------------------------------------------------------------------
(* The modules the model is run on *)

MaxBody == 3        \* statements of a class body (structure family)
MaxClasses == 2     \* top-level classes of a module (several-classes family)
MaxArgs == 3        \* arguments of an attr.ib call (field family)
MaxDecArgs == 3     \* arguments of an attr.s call (decorator family)

SeqsUpTo(S, n) == UNION {[1..k -> S] : k \in 0..n}

\* how a module spells the legacy API, with the imports that make it resolve
StyleAttr ==
    [imports |-> {Import("attr")},
     marker |-> <<"attr", "s">>, ib |-> <<"attr", "ib">>,
     factory |-> <<"attr", "Factory">>,
     validator |-> Call(<<"attr", "validators", "instance_of">>, <<Pos(Name("int"))>>)]
StyleFrom ==
    [imports |-> {ImportFrom("attr", "attrs"), ImportFrom("attr", "attrib"),
                  ImportFrom("attr", "Factory")},
     marker |-> <<"attrs">>, ib |-> <<"attrib">>, factory |-> <<"Factory">>,
     validator |-> Name("is_int")]
StyleShort ==
    [imports |-> {ImportFrom("attr", "s"), ImportFrom("attr", "ib"), Import("attr")},
     marker |-> <<"s">>, ib |-> <<"ib">>, factory |-> <<"attr", "Factory">>,
     validator |-> Name("is_int")]
StyleBoth ==
    [imports |-> {Import("attr"), ImportFrom("attr", "Factory")},
     marker |-> <<"attr", "s">>, ib |-> <<"attr", "ib">>,
     factory |-> <<"attr", "Factory">>,
     validator |-> Name("is_int")]
Styles == {StyleAttr, StyleFrom, StyleShort}

Marker(s) == Dotted(s.marker)
Ib(s, args) == Call(s.ib, args)
TypeInt == Kw("type", Name("int"))
ValidatorOf(field) == FunctionDef(<<Dotted(<<field, "validator">>)>>)
DefaultOf(field) == FunctionDef(<<Dotted(<<field, "default">>)>>)

\* class names: the path of the class
RECURSIVE NameBody(_, _)
NameBody(body, prefix) ==
    [j \in 1..Len(body) |->
        IF body[j].kind = "ClassDef"
        THEN [body[j] EXCEPT !.name = prefix \o <<j>>,
                             !.body = NameBody(body[j].body, prefix \o <<j>>)]
        ELSE body[j]]

\* structure family: one class, any arrangement of these statements
StructStmts(s) ==
    {Assign(<<Name("x")>>, Ib(s, <<>>)),
     Assign(<<Name("a")>>, Ib(s, <<TypeInt, Kw("default", Lit("0"))>>)),
     AnnAssign(Name("z"), Name("int"), Ib(s, <<>>)),
     Assign(<<Name("p"), Name("q")>>, Ib(s, <<TypeInt>>)),
     ValidatorOf("a"),
     ClassDef(<<>>, <<Marker(s)>>, <<Assign(<<Name("n")>>, Ib(s, <<TypeInt>>))>>),
     ClassDef(<<>>, <<Marker(s)>>, <<Assign(<<Name("u")>>, Ib(s, <<>>))>>)}

StructModulesOf(s) ==
    {Module(s.imports, <<ClassDef(<<>>, <<Marker(s)>>, body)>>) :
        body \in SeqsUpTo(StructStmts(s), MaxBody)}

\* several-classes family
SomeClasses(s) ==
    {ClassDef(<<>>, <<Marker(s)>>, <<Assign(<<Name("y")>>, Ib(s, <<TypeInt>>))>>),
     ClassDef(<<>>, <<Marker(s)>>, <<Assign(<<Name("x")>>, Ib(s, <<>>))>>),
     ClassDef(<<>>, <<Marker(s)>>,
         <<Assign(<<Name("l")>>,
                  Ib(s, <<Kw("type", Name("list")),
                          Kw("default", Call(s.factory, <<Pos(Name("list"))>>))>>))>>),
     ClassDef(<<>>, <<Marker(s)>>,
         <<Assign(<<Name("w")>>, Ib(s, <<TypeInt, Kw("validator", s.validator)>>))>>),
     ClassDef(<<>>, <<Marker(s)>>,
         <<Assign(<<Name("k")>>,
                  Ib(s, <<Kw("default", Call(s.factory, <<Pos(Name("list"))>>))>>))>>),
     ClassDef(<<>>, <<Marker(s)>>,
         <<Assign(<<TupleOf(<<"p", "q">>)>>, Ib(s, <<TypeInt>>)),
           Assign(<<Name("y")>>, Ib(s, <<TypeInt>>))>>)}

ClassesModulesOf(s) ==
    {Module(s.imports, body) : body \in SeqsUpTo(SomeClasses(s), MaxClasses)}

\* field family: one class with one field, and perhaps a companion method
FieldArgSet(s) ==
    {Kw("type", Name("int")), Kw("type", Name("str")),
     Kw("default", Lit("0")),
     Kw("default", Call(s.factory, <<>>)),
     Kw("default", Call(s.factory, <<Pos(Name("list"))>>)),
     Kw("default", Call(s.factory, <<Pos(Name("list")), Kw("takes_self", Name("True"))>>)),
     Kw("validator", s.validator),
     Kw("converter", Name("int")),
     Pos(Name("p"))}

\* Python's rules for a call: no keyword twice, no positional after a keyword
ValidArgs(w) ==
    /\ \A i, j \in 1..Len(w) : i < j /\ w[i].keyword # "" => w[j].keyword # w[i].keyword
    /\ \A i, j \in 1..Len(w) : i < j /\ w[i].keyword # "" => w[j].keyword # ""

FieldModulesOf(s) ==
    {Module(s.imports, <<ClassDef(<<>>, <<Marker(s)>>, <<fld>> \o tail)>>) :
        fld \in UNION {{Assign(<<Name("a")>>, Ib(s, w)),
                        AnnAssign(Name("a"), Name("int"), Ib(s, w))} :
                       w \in {v \in SeqsUpTo(FieldArgSet(s), MaxArgs) : ValidArgs(v)}},
        tail \in {<<>>, <<ValidatorOf("a")>>, <<DefaultOf("a")>>}}

\* decorator family: one class, its decorators
DecArgSet ==
    {Kw("auto_attribs", Name("True")), Kw("auto_attribs", Name("False")),
     Kw("frozen", Name("True")), Kw("eq", Name("False")), Pos(Name("these"))}

DecoratorModulesOf(s) ==
    {Module(s.imports, <<ClassDef(<<>>, decs, body)>>) :
        decs \in {<<>>, <<Name("total_ordering")>>, <<Marker(s)>>}
                 \cup UNION {{<<Call(s.marker, w)>>,
                              <<Name("total_ordering"), Call(s.marker, w)>>} :
                             w \in {v \in SeqsUpTo(DecArgSet, MaxDecArgs) : ValidArgs(v)}},
        body \in {<<Assign(<<Name("y")>>, Ib(s, <<TypeInt>>))>>,
                  <<Assign(<<Name("x")>>, Ib(s, <<>>))>>,
                  <<AnnAssign(Name("z"), Name("int"), Ib(s, <<>>))>>,
                  <<AnnAssign(Name("b"), Name("int"), NoneVal)>>}}

Modules ==
    {Module(m.imports, NameBody(m.body, <<>>)) :
        m \in UNION ({StructModulesOf(s) : s \in Styles}
                      \cup {ClassesModulesOf(s) : s \in Styles \cup {StyleBoth}}
                      \cup {FieldModulesOf(s) : s \in {StyleAttr, StyleFrom}}
                      \cup {DecoratorModulesOf(s) : s \in {StyleAttr, StyleFrom}})}

----------------------------------------------------------------------------
(* The specification *)

Init ==
    /\ orig \in Modules
    /\ input = orig
    /\ pass = 1
    /\ phase = "walk"
    /\ mi = 1
    /\ stack = <<>>
    /\ outBody = <<>>
    /\ scratch = NoScratch
    /\ output = Module({}, <<>>)
    /\ first = Module({}, <<>>)
    /\ current_class_has_untyped_attr = FALSE
    /\ current_class_name = <<>>
    /\ in_annotated_assign = FALSE
    /\ did_transform = FALSE
    /\ decorated_fields = {}
    /\ warnings = <<>>
    /\ built = NoBuild

Next ==
    \/ VisitClassDef
    \/ VisitAnnAssign
    \/ VisitCall
    \/ LeaveAnnAssign
    \/ LeaveAssign
    \/ LeaveDecorator
    \/ LeaveClassDef
    \/ LeaveModule
    \/ RunImportVisitors
    \/ TransformAgain

Spec == Init /\ [][Next]_vars

----------------------------------------------------------------------------
(* Vocabulary of the properties *)

\* the first application has returned
Applied == pass = 1 /\ phase = "done"

RECURSIVE ClassesIn(_)
\* the classes of a body, nested ones included
ClassesIn(body) ==
    UNION {IF body[j].kind = "ClassDef"
           THEN {body[j]} \cup ClassesIn(body[j].body) ELSE {} : j \in 1..Len(body)}

ClassNamed(body, name) == CHOOSE c \in ClassesIn(body) : c.name = name

RECURSIVE StmtPairs(_, _)
\* every statement of a body (nested classes included) with the statement at
\* the same place of the other body
StmtPairs(a, b) ==
    UNION {{[src |-> a[j], dst |-> b[j]]}
           \cup (IF a[j].kind = "ClassDef" /\ b[j].kind = "ClassDef"
                    /\ Len(a[j].body) = Len(b[j].body)
                 THEN StmtPairs(a[j].body, b[j].body) ELSE {}) :
           j \in 1..Len(a)}

\* an attr.ib call with no type= on a declaration without annotation
UntypedLegacyField(st, imports) ==
    st.kind = "Assign" /\ IsLegacyField(st, imports) /\ ~HasType(st.value)

HasUntypedField(c, imports) ==
    \E j \in 1..Len(c.body) : UntypedLegacyField(c.body[j], imports)

WarningCount(name) == Cardinality({i \in 1..Len(warnings) : warnings[i] = name})

\* the decorators of the functions that are statements of the class itself
CompanionFields(c) ==
    UNION {FunctionFields(c.body[j]) :
           j \in {i \in 1..Len(c.body) : c.body[i].kind = "FunctionDef"}}

UsesBuilderForm(st) == IsCall(st.value) /\ st.value.id = <<"field">>

----------------------------------------------------------------------------
(* C1: safety preservation *)

\* C1 (as claimed): every class whose body holds an untyped legacy field is
\* emitted identical to the input class, with exactly one warning naming it,
\* wherever the field sits and whatever precedes or follows it.
C1_SafetyPreservation ==
    Applied =>
        \A c \in ClassesIn(orig.body) :
            HasUntypedField(c, orig.imports) =>
                /\ ClassNamed(output.body, c.name) = c
                /\ WarningCount(c.name) = 1

----------------------------------------------------------------------------
(* C2: forced builder *)

\* C2 (as claimed): in a rewritten class, a legacy field whose name is the
\* receiver of a <field>.validator or <field>.default decorator of a method of
\* that class is emitted as field(...), wherever it stands in the body.
C2_ForcedBuilder ==
    Applied =>
        \A c \in ClassesIn(orig.body) :
            LET d == ClassNamed(output.body, c.name)
            IN  d # c =>
                  \A j \in 1..Len(c.body) :
                      /\ c.body[j].kind \in {"Assign", "AnnAssign"}
                      /\ IsLegacyField(c.body[j], orig.imports)
                      /\ IsName(c.body[j].targets[1])
                      /\ c.body[j].targets[1].id[1] \in CompanionFields(c)
                      => UsesBuilderForm(d.body[j])

----------------------------------------------------------------------------
(* C3: annotation and type= on one declaration *)

\* the rewritten declarations that had both an annotation and a type= argument,
\* each with the declaration emitted in its place
BothTyped ==
    {pr \in StmtPairs(orig.body, output.body) :
        /\ pr.src.kind = "AnnAssign"
        /\ IsLegacyField(pr.src, orig.imports)
        /\ HasType(pr.src.value)
        /\ pr.dst # pr.src}

----------------------------------------------------------------------------
(* C4: the decision table of the field synthesis *)

\* the last declaration _build_field_value returned is part of the output
BuiltEmitted ==
    /\ Applied
    /\ built.valid
    /\ \E pr \in StmtPairs(orig.body, output.body) :
         /\ pr.src.kind \in {"Assign", "AnnAssign"}
         /\ IsLegacyField(pr.src, orig.imports)
         /\ pr.dst # pr.src
         /\ pr.dst = built.result

\* the value of the default= argument of a legacy call, NoneVal without one
DefaultOfCall(args) ==
    IF \E i \in 1..Len(args) : args[i].keyword = "default"
    THEN args[CHOOSE i \in 1..Len(args) : args[i].keyword = "default"].value
    ELSE NoneVal

\* the arguments of a legacy call other than type= and default=
OthersOfCall(args) == SelectSeq(args, LAMBDA a : a.keyword \notin {"type", "default"})

\* the table of the claim, on the initializer v emitted for a legacy call with
\* arguments args and forced flag forced. A factory is a default that is a
\* Factory wrapper call with a value (function + value), a simple default any
\* default that is not a wrapper call; a wrapper call without value is a
\* default that exists and is neither.
TableRow(args, forced, v) ==
    LET d == DefaultOfCall(args)
        others == OthersOfCall(args)
        wrapper == Truthy(d) /\ IsFactoryCall(d)
        factory == wrapper /\ d.args # <<>>
        simple == Truthy(d) /\ ~wrapper
    IN  IF simple /\ others = <<>> /\ ~forced
        THEN v = d
        ELSE IF factory /\ others = <<>> /\ ~forced
        THEN v = Call(<<"Factory">>, <<Pos(d.args[1].value)>>)
        ELSE IF factory \/ others # <<>> \/ forced
        THEN v = Call(<<"field">>,
                      (IF factory THEN <<Kw("factory", d.args[1].value)>>
                       ELSE IF Truthy(d) THEN <<Kw("default", d)>>
                       ELSE <<>>) \o others)
        ELSE v = NoneVal

\* C4 (as claimed): the declaration emitted for a legacy field of a safe class
\* is annotated and its initializer is the one the table gives, in the table's
\* precedence, for the field's arguments and the forced flag it was built with.
C4_DecisionTable ==
    BuiltEmitted =>
        /\ built.result.kind = "AnnAssign"
        /\ TableRow(built.args, built.force_field, built.result.value)

----------------------------------------------------------------------------
(* C5: the decorator of a rewritten class *)

\* no untyped legacy field in the class nor in a class nested in it
CleanSubtree(c, imports) ==
    \A k \in ClassesIn(<<c>>) : ~HasUntypedField(k, imports)

\* the arguments the claim keeps: all but auto_attribs=True, in order
FilteredArgs(dec) ==
    IF IsCall(dec)
    THEN SelectSeq(dec.args,
                   LAMBDA a : ~(a.keyword = "auto_attribs" /\ a.value = Name("True")))
    ELSE <<>>

\* the decorator the claim expects in place of dec
ExpectedDecorator(dec, imports) ==
    IF IsAttrsDecorator(dec, imports)
    THEN IF FilteredArgs(dec) = <<>> THEN Name("define")
         ELSE Call(<<"define">>, FilteredArgs(dec))
    ELSE dec

ExpectedDecorators(c, imports) ==
    [i \in 1..Len(c.decs) |-> ExpectedDecorator(c.decs[i], imports)]

\* the classes whose decorators the walk has left
DecoratorsLeft == {i \in 1..Len(stack) : stack[i].phase = "body"}

----------------------------------------------------------------------------
(* C6: the imports of the target symbols *)

\* the declarations emitted in place of a legacy field
EmittedFields ==
    {pr.dst : pr \in {q \in StmtPairs(orig.body, output.body) :
                        /\ q.src.kind \in {"Assign", "AnnAssign"}
                        /\ IsLegacyField(q.src, orig.imports)
                        /\ q.dst # q.src}}

\* the declarations of the output, rewritten or not
OutputDeclarations ==
    {pr.dst : pr \in {q \in StmtPairs(orig.body, output.body) :
                        q.dst.kind \in {"Assign", "AnnAssign"}}}

UsesFactoryShortcut(st) == IsCall(st.value) /\ st.value.id = <<"Factory">>

UsesBuilderWithFactory(st) ==
    /\ UsesBuilderForm(st)
    /\ \E i \in 1..Len(st.value.args) : st.value.args[i].keyword = "factory"

FieldImported == ImportFrom("attrs", "field") \in output.imports

\* Factory is importable from the target namespace or, when the input already
\* did so, from the legacy one
FactoryImported ==
    \/ ImportFrom("attrs", "Factory") \in output.imports
    \/ ImportFrom("attr", "Factory") \in output.imports

----------------------------------------------------------------------------
(* C7: the legacy imports *)

\* an import of the legacy namespaces or of a symbol of the legacy namespace
LegacyImport(imp) == imp.module = "attr" \/ imp = Import("attrs")

\* the legacy imports the reconciler retires
RetiredImports ==
    {Import("attr"), Import("attrs"),
     ImportFrom("attr", "attrs"), ImportFrom("attr", "attrib"),
     ImportFrom("attr", "ib"), ImportFrom("attr", "Factory")}

Rewrote == Applied /\ output.body # orig.body

----------------------------------------------------------------------------
(* C8: idempotence *)

\* the second application has returned
AppliedTwice == pass = 2 /\ phase = "done"

\* C8: applying the transformation to the output of a first application
\* returns that output again, imports, decorators and declarations alike.
C8_Idempotence == AppliedTwice => output = first

\* a second application that schedules an import the walk of the first did
\* not: Factory, for a wrapper left in an unchanged class once the first
\* application removed the unused from attr import Factory
C8_Witness ==
    /\ AppliedTwice
    /\ output = first
    /\ ImportFrom("attr", "Factory") \in orig.imports
    /\ ImportFrom("attr", "Factory") \notin first.imports
    /\ ImportFrom("attrs", "Factory") \in scratch.adds
    /\ first.body # orig.body

----------------------------------------------------------------------------
(* C9: targets that are not one simple name *)

\* a legacy field declaration with several chained targets or a tuple target
UnsupportedTarget(st, imports) ==
    /\ st.kind = "Assign"
    /\ IsLegacyField(st, imports)
    /\ (Len(st.targets) > 1 \/ ~IsName(st.targets[1]))

\* C9 (as claimed): a legacy field declaration whose target is not a single
\* simple name is emitted unchanged, in a rewritten class as in any other.
C9_UnsupportedTarget ==
    Applied =>
        \A pr \in StmtPairs(orig.body, output.body) :
            UnsupportedTarget(pr.src, orig.imports) => pr.dst = pr.src

----------------------------------------------------------------------------
(* C10: the class as the unit of rewriting *)

\* a class none of whose decorators resolves to a legacy marker
Unmarked(c, imports) ==
    \A i \in 1..Len(c.decs) : ~IsAttrsDecorator(c.decs[i], imports)

\* the legacy field declarations of the class body, by position
LegacyFieldsAt(c, imports) ==
    {j \in 1..Len(c.body) :
        c.body[j].kind \in {"Assign", "AnnAssign"} /\ IsLegacyField(c.body[j], imports)}

\* C10 (as claimed): every class of the output is either the input class
\* unchanged, or has all its legacy marker decorators and all its legacy
\* field declarations rewritten; a class without legacy marker has none of
\* its legacy field declarations rewritten.
C10_WholeClass ==
    Applied =>
        \A c \in ClassesIn(orig.body) :
            LET d == ClassNamed(output.body, c.name)
            IN  /\ \/ [d EXCEPT !.body = [j \in 1..Len(c.body) |->
                                            IF c.body[j].kind = "ClassDef"
                                            THEN c.body[j] ELSE d.body[j]]] = c
                   \/ /\ \A i \in 1..Len(c.decs) :
                            IsAttrsDecorator(c.decs[i], orig.imports)
                            => d.decs[i] # c.decs[i]
                      /\ \A j \in LegacyFieldsAt(c, orig.imports) :
                            d.body[j] # c.body[j]
                /\ Unmarked(c, orig.imports) =>
                     \A j \in LegacyFieldsAt(c, orig.imports) : d.body[j] = c.body[j]

----------------------------------------------------------------------------
(* C11: the walker state belongs to the enclosing class *)

\* the walk is about to leave a declaration of the innermost class, or that
\* class itself: the callbacks that consult the flag, the forced set and
\* the class name
ConsultPoint ==
    /\ phase = "walk"
    /\ stack # <<>>
    /\ Top.phase = "body"
    /\ \/ Top.i > Len(Top.node.body)
       \/ Here.kind = "Assign" /\ ValueVisited(Here, "start")
       \/ Here.kind = "AnnAssign" /\ ValueVisited(Here, "value")

\* the statements of the innermost class the walk has entered so far
EnteredOfTop ==
    {j \in 1..Len(Top.node.body) : j <= Top.i}

\* the verdict of the innermost class as far as it has been walked: one of
\* its own statements is an untyped legacy field
VerdictOfTop ==
    \E j \in EnteredOfTop : UntypedLegacyField(Top.node.body[j], input.imports)

\* C11 (as claimed): at every field declaration and at class exit, the
\* untyped flag, the forced-builder set and the recorded class name are
\* those of the class directly enclosing the walk position; a sibling or a
\* nested class walked before leaves no trace in them.
C11_VerdictIsolation ==
    ConsultPoint =>
        /\ current_class_name = Top.node.name
        /\ decorated_fields = CollectFields(Top.node)
        /\ current_class_has_untyped_attr = VerdictOfTop

----------------------------------------------------------------------------
(* C12: what a rewritten field keeps of its legacy call *)

\* the initializer v carries the default d of the legacy call: as itself, as
\* a Factory call with all the arguments of the wrapper d, as default=d, or
\* as factory=<value> when the value is all the wrapper d holds
CarriesDefault(v, d) ==
    \/ v = d
    \/ /\ IsFactoryCall(d)
       /\ IsCall(v) /\ v.id = <<"Factory">> /\ v.args = d.args
    \/ /\ IsCall(v) /\ v.id = <<"field">>
       /\ \/ Kw("default", d) \in Range(v.args)
          \/ /\ IsFactoryCall(d)
             /\ Len(d.args) = 1
             /\ Kw("factory", d.args[1].value) \in Range(v.args)

\* C12 (as claimed): the declaration emitted for a legacy field keeps every
\* argument of the legacy call but type=: the other arguments, and the
\* default, which when it is a Factory wrapper call comes with every argument
\* of the wrapper, none, one or several.
C12_ArgumentPreservation ==
    BuiltEmitted =>
        LET d == DefaultOfCall(built.args)
            v == built.result.value
        IN  /\ Truthy(d) => CarriesDefault(v, d)
            /\ OthersOfCall(built.args) # <<>> =>
                  /\ IsCall(v)
                  /\ Range(OthersOfCall(built.args)) \subseteq Range(v.args)

====
